---- MODULE Spec2Model ----
(***************************************************************************)
(* geonotebook/kernel.py: the Remote proxy (per-procedure stubs, promise   *)
(* table, resolve), the Geonotebook session controller (protocol cache,    *)
(* request dispatch, remote-calling operations) and the GeonotebookKernel  *)
(* comm handlers.                                                          *)
(*                                                                         *)
(* Wire values are tagged records (null, int, str, bool, list of ints,     *)
(* promise object); wire messages are records whose DOMAIN is the set of   *)
(* fields the message carries.                                             *)
(***************************************************************************)
EXTENDS Integers, Sequences, FiniteSets, TLC

\* ------------------------------------------------------------------ bounds
\* Number of correlation ids (promises) allocated in one behaviour.
MaxIds == 3
\* Number of stub calls made on a Remote used on its own.
MaxStubCalls == 2
\* Largest number of required / optional keys of a generated stub descriptor.
MaxRequired == 2
MaxOptional == 2
\* Number of comm opens and of kernel restarts in one behaviour.
MaxOpens == 1
MaxRestarts == 0
\* Number of annotations held by the annotation layer.
MaxAnnotations == 1
\* comm opens in the specification of the channel lifecycle
MaxSessionOpens == 2
\* parameters after self of a function of a class
MaxArgs == 2
\* controller instances over the restarts of a kernel
MaxInstances == 2
\* largest coordinate of a map center; the smallest is -1
MaxCoordinate == 1

\* ------------------------------------------------------------- wire values
Val(tag, str, list) == [tag |-> tag, str |-> str, list |-> list]

NullV == Val("null", "", << >>)

IntV(i) == Val("int", "", <<i>>)

StrV(s) == Val("str", s, << >>)

ListV(l) == Val("list", "", l)

TrueV == Val("bool", "true", << >>)

\* a JSON object; its entries are not modelled
DictV == Val("dict", "", << >>)

\* a Promise object used as a value
PromiseV(id) == Val("promise", "", <<id>>)
\* an object that has a 'name' attribute, such as a layer
NamedV(name) == Val("named", name, << >>)

\* error field of a ResultEnvelope: code 0 stands for JSON null
NoError == [code |-> 0, message |-> ""]

RemoteError == [code |-> 7, message |-> "remote failure"]

\* exceptions: kind "none" stands for normal return
NoExc == [kind |-> "none", code |-> 0, message |-> ""]

PyExc(kind, message) == [kind |-> kind, code |-> 0, message |-> message]

Min(a, b) == IF a <= b THEN a ELSE b

\* ----------------------------------------------------------- jsonrpc codec
\* jsonrpc.json_rpc_request(method, params): a request with a fresh id
json_rpc_request(method, params, id) ==
    [id |-> id, method |-> method, params |-> params]

\* jsonrpc.json_rpc_result(result, error, id)
json_rpc_result(result, error, id) ==
    [id |-> id, result |-> result, error |-> error]

is_request(msg) == {"method", "params", "id"} \subseteq DOMAIN msg

is_response(msg) == {"result", "error", "id"} \subseteq DOMAIN msg

\* ------------------------------------------------------------ Promise
NoCont == [kind |-> "none"]

\* Promise(): a new pending promise with no continuation attached
NewPromise(gen) ==
    [state |-> "pending", value |-> NullV, reason |-> NoError,
     cont |-> NoCont, runs |-> 0, remote |-> gen]

\* Promise.fulfill(value): settles a pending promise, ignored otherwise
PromiseFulfill(p, v) ==
    IF p.state # "pending" THEN p
    ELSE [p EXCEPT !.state = "fulfilled", !.value = v]

\* Promise.reject(Exception(error)): settles a pending promise, ignored otherwise
PromiseReject(p, e) ==
    IF p.state # "pending" THEN p
    ELSE [p EXCEPT !.state = "rejected", !.reason = e]

\* ------------------------------------------------------------ Remote
ReqKeyPool == <<"a", "b", "r3", "r4">>
OptKeyPool == <<"c", "e", "o3", "o4">>
UndeclaredKey == "d"

\* a protocol definition of the remote peer: one procedure's callable shape
Desc(name, req, opt) ==
    [procedure |-> name,
     required  |-> [i \in 1..Len(req) |-> [key |-> req[i]]],
     optional  |-> [i \in 1..Len(opt) |-> [key |-> opt[i], default |-> NullV]]]

Descriptor(name, R, O) ==
    Desc(name, SubSeq(ReqKeyPool, 1, R), SubSeq(OptKeyPool, 1, O))

Descriptors ==
    { Descriptor("f", R, O) : R \in 0..MaxRequired, O \in 0..MaxOptional }

\* positional arguments: the i-th argument has value i
ArgsOf(n) == [i \in 1..n |-> IntV(i)]

KwVal(k) == IF k = UndeclaredKey THEN 10
            ELSE 10 + (CHOOSE i \in 1..Len(OptKeyPool) : OptKeyPool[i] = k)

\* keyword arguments: a function from the keys given to their values
KwargsOf(S) == [k \in S |-> IntV(KwVal(k))]

\* Remote.validate: the two asserts, TRUE when neither fires
validate(protocol, args, kwargs) ==
    /\ Len(args) >= Len(protocol.required)
    /\ Len(args) <= Len(protocol.required) + Len(protocol.optional)

make_param(key, value, required) ==
    [key |-> key, value |-> value, required |-> required]

\* faulty variant of BuildParams: every optional key is sent, null when not given
BuildParams_NullForAbsent(protocol, args, kwargs) ==
    LET n   == Min(Len(protocol.required), Len(args))
        req == [i \in 1..n |->
                   make_param(protocol.required[i].key, args[i], TRUE)]
        opt == [i \in 1..Len(protocol.optional) |->
                   make_param(protocol.optional[i].key,
                              IF protocol.optional[i].key \in DOMAIN kwargs
                              THEN kwargs[protocol.optional[i].key] ELSE NullV,
                              FALSE)]
    IN  req \o opt

\* _protocol_closure: the params list, zip(required, args) then the optional
\* keys found in kwargs
BuildParams(protocol, args, kwargs) ==
    LET n    == Min(Len(protocol.required), Len(args))
        req  == [i \in 1..n |->
                    make_param(protocol.required[i].key, args[i], TRUE)]
        pres == SelectSeq(protocol.optional, LAMBDA k : k.key \in DOMAIN kwargs)
        opt  == [i \in 1..Len(pres) |->
                    make_param(pres[i].key, kwargs[pres[i].key], FALSE)]
    IN  req \o opt


\* ------------------------------------------------------------------ state
VARIABLES
    geonotebook,   \* kernel.geonotebook: the Geonotebook instance (M), or none
    cls,           \* class Geonotebook: its functions and msg_types
    clsProtocol,   \* Geonotebook._protocol, the class-level cache, or None
    remote,        \* the Remote proxy: its protocol and its generation
    promises,      \* every Promise created by a stub: id -> promise
    initializing,  \* GeonotebookKernel.initializing
    comm,          \* a comm is open and handle_comm_msg is registered on it
    nextId,        \* the next id json_rpc_request allocates
    outbox,        \* messages handed to the transport in the current call
    log,           \* log records written in the current call
    escaped,       \* the exception that left the current call, or NoExc
    pc,            \* position inside a stub closure whose transport re-enters
    call           \* the top-level call being made: its inputs and outcome

vars == <<geonotebook, cls, clsProtocol, remote, promises, initializing, comm,
          nextId, outbox, log, escaped, pc, call>>

NoGeonotebook ==
    [alive |-> FALSE, gen |-> 0, view |-> NullV, layers |-> << >>]

NoRemote == [bound |-> FALSE, gen |-> 0, protocol |-> << >>]

Idle == [op |-> "idle", id |-> 0]

\* the program state a handler reads and writes, as one record
Cur ==
    [geonotebook |-> geonotebook, cls |-> cls, clsProtocol |-> clsProtocol,
     remote |-> remote, promises |-> promises, initializing |-> initializing,
     comm |-> comm, nextId |-> nextId, outbox |-> outbox, log |-> log,
     exc |-> NoExc, ret |-> 0, retv |-> NullV, descriptors |-> << >>,
     invoked |-> << >>,
     returned |-> FALSE, raised |-> NoExc, caught |-> NoExc]

\* no top-level call is running: the kernel is back in its loop
NoCall == [op |-> "none"]

Quiet == call = NoCall

\* the state at the entry of a top-level call
Entry == [Cur EXCEPT !.outbox = << >>, !.log = << >>]

Commit(s) ==
    /\ geonotebook' = s.geonotebook
    /\ cls' = s.cls
    /\ clsProtocol' = s.clsProtocol
    /\ remote' = s.remote
    /\ promises' = s.promises
    /\ initializing' = s.initializing
    /\ comm' = s.comm
    /\ nextId' = s.nextId
    /\ outbox' = s.outbox
    /\ log' = s.log
    /\ escaped' = s.exc

Raise(s, e) == [s EXCEPT !.exc = e]

Send(s, msg) == [s EXCEPT !.outbox = Append(@, msg)]

Log(s, rec) == [s EXCEPT !.log = Append(@, rec)]

\* faulty variant of Table: the table is shared by every Remote
Table_ClassLevel(s) == DOMAIN s.promises

\* Remote._promises of the bound Remote: the ids registered in it
Table(s) == { i \in DOMAIN s.promises : s.promises[i].remote = s.remote.gen }

\* faulty variant of RegisterPromise: the promise is not in the table when the
\* transport is called
RegisterPromise_AfterSend(ps, id, gen) == ps

\* self._promises[msg['id']] = Promise()
RegisterPromise(ps, id, gen) ==
    [i \in DOMAIN ps \cup {id} |->
        IF i = id THEN NewPromise(gen) ELSE ps[i]]

\* getattr(remote, f): the stub for procedure f, as its protocol definition
HasStub(s, f) == \E i \in DOMAIN s.remote.protocol :
                    s.remote.protocol[i].procedure = f

StubOf(s, f) == s.remote.protocol[
    CHOOSE i \in DOMAIN s.remote.protocol : s.remote.protocol[i].procedure = f]

\* _protocol_closure up to and including self._send_msg(msg); ret is msg['id']
ClosureSend(s, protocol, args, kwargs) ==
    IF ~validate(protocol, args, kwargs)
    THEN Raise(s, PyExc("AssertionError", "arity"))
    ELSE LET id  == s.nextId
             msg == json_rpc_request(protocol.procedure,
                                     BuildParams(protocol, args, kwargs), id)
             reg == [s EXCEPT !.promises = RegisterPromise(@, id, s.remote.gen),
                              !.nextId = id + 1, !.ret = id]
         IN  Send(reg, msg)

\* return self._promises[msg['id']]
ClosureReturn(s, id) ==
    IF id \in Table(s) THEN [s EXCEPT !.ret = id]
    ELSE Raise([s EXCEPT !.ret = 0], PyExc("KeyError", "id"))


\* ------------------------------------------------- GeonotebookLayerCollection
Layer(name, kind, zIndex, system, expose_as) ==
    [name |-> name, kind |-> kind, zIndex |-> zIndex, system |-> system,
     expose_as |-> expose_as, annotations |-> 0]

HasLayer(layers, name) == \E i \in DOMAIN layers : layers[i].name = name

\* layers.append(layer): a second layer of the same name is refused
CanAppend(layers, layer) == ~HasLayer(layers, layer.name)

\* layers.remove(name)
CanRemove(layers, v) == v.tag = "str" /\ HasLayer(layers, v.str)

LayersRemove(layers, v) == SelectSeq(layers, LAMBDA l : l.name # v.str)

\* layers.annotation: the layer exposed as 'annotation'
HasAnnotationLayer(layers) ==
    \E i \in DOMAIN layers : layers[i].expose_as = "annotation"

\* layers.annotation.add_annotation(ann_type, coords, meta)
AnnotationAdded(layers) ==
    [i \in DOMAIN layers |->
        IF layers[i].expose_as = "annotation"
        THEN [layers[i] EXCEPT !.annotations = @ + 1] ELSE layers[i]]

AnnotationCount(layers) ==
    IF HasAnnotationLayer(layers)
    THEN layers[CHOOSE i \in DOMAIN layers :
                    layers[i].expose_as = "annotation"].annotations
    ELSE 0

\* ---------------------------------------------- continuations of Geonotebook
\* the Geonotebook instance a closure captured is the one still installed
IsSelf(s, c) == s.geonotebook.alive /\ s.geonotebook.gen = c.self

\* Geonotebook.add_annotation_from_client, on the state record
AddAnnotationFromClient(s) ==
    IF HasAnnotationLayer(s.geonotebook.layers)
    THEN [s EXCEPT !.geonotebook.layers = AnnotationAdded(@), !.ret = 1]
    ELSE Raise(s, PyExc("AttributeError", "annotation"))

\* faulty variant of CallbackError: the failure of a continuation is raised
\* to the caller of resolve
CallbackError_Reraise(s) == Raise(s, PyExc("TypeError", "continuation failed"))

\* .catch(self.callback_error): a failure of a continuation is logged
CallbackError(s) == Log(s, "callback_error")

\* the success continuation of each remote-calling operation, run on value v
OnFulfilled(s, c, v) ==
    CASE c.kind = "set_center" ->
            IF v.tag = "list" /\ Len(v.list) = 3
            THEN IF IsSelf(s, c) THEN [s EXCEPT !.geonotebook.view = v] ELSE s
            ELSE CallbackError(s)
      [] c.kind = "add_layer" ->
            IF ~IsSelf(s, c) THEN s
            ELSE IF CanAppend(s.geonotebook.layers, c.layer)
            THEN [s EXCEPT !.geonotebook.layers = Append(@, c.layer)]
            ELSE CallbackError(s)
      [] c.kind = "remove_layer" ->
            IF ~IsSelf(s, c) THEN s
            ELSE IF CanRemove(s.geonotebook.layers, v)
            THEN [s EXCEPT !.geonotebook.layers = LayersRemove(@, v)]
            ELSE CallbackError(s)
      [] c.kind = "add_annotation" ->
            IF v.tag # "dict" THEN CallbackError(s)
            ELSE IF ~IsSelf(s, c) THEN s
            ELSE LET r == AddAnnotationFromClient(s)
                 IN  IF r.exc # NoExc THEN CallbackError(s)
                     ELSE [r EXCEPT !.ret = s.ret]
      [] OTHER -> s

\* Geonotebook.rpc_error, the failure continuation
OnRejected(s, c, e) == Log(s, "rpc_error")

\* the continuation attached to promise id runs, the promise being settled
RunCont(s, id) ==
    LET p  == s.promises[id]
        s1 == [s EXCEPT !.promises[id].runs = @ + 1]
    IN  IF p.cont.kind = "none" THEN s
        ELSE IF p.state = "fulfilled" THEN OnFulfilled(s1, p.cont, p.value)
        ELSE OnRejected(s1, p.cont, p.reason)

\* ------------------------------------------------------------ Remote.resolve
\* faulty variant of SettlePromise: the branch tests the result instead of the error
SettlePromise_ByResult(p, msg) ==
    IF msg.result # NullV THEN PromiseFulfill(p, msg.result)
    ELSE PromiseReject(p, msg.error)

\* faulty variant of SettlePromise: the outcome is written into the promise whatever
\* its state
SettlePromise_Overwrite(p, msg) ==
    IF msg.error # NoError
    THEN [p EXCEPT !.state = "rejected", !.reason = msg.error]
    ELSE [p EXCEPT !.state = "fulfilled", !.value = msg.result]

\* the branch on msg['error'] applied to the promise registered for the id
SettlePromise(p, msg) ==
    IF msg.error # NoError THEN PromiseReject(p, msg.error)
    ELSE PromiseFulfill(p, msg.result)

\* Remote has no attribute 'log': the warning of the else branch fails
UnknownPromise(s, msg) ==
    Raise(s, PyExc("AttributeError", "'Remote' object has no attribute 'log'"))

\* the promise of id becomes q; its continuation runs when it leaves pending
PromiseSettled(s, id, q) ==
    LET s1 == [s EXCEPT !.promises[id] = q]
    IN  IF s.promises[id].state = "pending" /\ q.state # "pending"
        THEN RunCont(s1, id) ELSE s1

resolve(s, msg) ==
    IF msg.id \in Table(s)
    THEN PromiseSettled(s, msg.id, SettlePromise(s.promises[msg.id], msg))
    ELSE UnknownPromise(s, msg)


\* ------------------------------------------------------- jsonrpc errors
MethodNotFound(m) == [kind |-> "MethodNotFound", code |-> -32601, message |-> m]

InvalidParams(m) == [kind |-> "InvalidParams", code |-> -32602, message |-> m]

ServerError(m) == [kind |-> "ServerError", code |-> -32000, message |-> m]

ParseError(m) == [kind |-> "ParseError", code |-> -32700, message |-> m]

\* isinstance(e, jsonrpc.JSONRPCError)
IsJSONRPCError(e) ==
    e.kind \in {"ParseError", "InvalidRequest", "MethodNotFound",
                "InvalidParams", "InternalError", "ServerError"}

\* JSONRPCError.tojson()
tojson(e) == [code |-> e.code, message |-> e.message]

\* ------------------------------------------------- Geonotebook.class_protocol
\* the functions of class Geonotebook, by name, with the arguments and the
\* number of defaults getargspec reports (getmembers lists them sorted by
\* name)
GeonotebookMethods ==
    << [name |-> "add_annotation",
        args |-> <<"self", "ann_type", "coords", "meta">>, defaults |-> 1],
       [name |-> "add_annotation_from_client",
        args |-> <<"self", "ann_type", "coords", "meta">>, defaults |-> 0],
       [name |-> "add_layer",
        args |-> <<"self", "data", "name", "vis_url">>, defaults |-> 2],
       [name |-> "get_map_state", args |-> <<"self">>, defaults |-> 0],
       [name |-> "get_protocol", args |-> <<"self">>, defaults |-> 0],
       [name |-> "remove_layer", args |-> <<"self", "layer_name">>, defaults |-> 0],
       [name |-> "serialize", args |-> <<"self">>, defaults |-> 0],
       [name |-> "set_center", args |-> <<"self", "x", "y", "z">>, defaults |-> 0] >>

\* faulty variant of msg_types: the layer operations are exposed too
msg_types_WithLayerOps ==
    {"get_protocol", "set_center", "add_annotation_from_client",
     "get_map_state", "add_layer", "remove_layer"}

\* Geonotebook.msg_types
msg_types ==
    {"get_protocol", "set_center", "add_annotation_from_client",
     "get_map_state"}

\* class Geonotebook
GeonotebookClass == [methods |-> GeonotebookMethods, msg_types |-> msg_types]

\* cls._protocol is None
NoProtocol == [built |-> FALSE, protocol |-> << >>]

\* faulty variant of MethodProtocol: the receiver is listed and the split is
\* taken from the front
MethodProtocol_FromFront(m) ==
    Desc(m.name, SubSeq(m.args, 1, m.defaults),
         SubSeq(m.args, m.defaults + 1, Len(m.args)))

\* _method_protocol(fn, method)
MethodProtocol(m) ==
    LET params == Tail(m.args)
        r == Len(params) - m.defaults
    IN  Desc(m.name, SubSeq(params, 1, r), SubSeq(params, r + 1, Len(params)))

\* the dict comprehension of class_protocol: fn -> protocol, for the
\* functions of the class named in msg_types
BuildProtocol(c) ==
    LET exposed == { i \in DOMAIN c.methods : c.methods[i].name \in c.msg_types }
    IN  [fn \in { c.methods[i].name : i \in exposed } |->
            MethodProtocol(c.methods[
                CHOOSE i \in exposed : c.methods[i].name = fn])]

\* list(cls._protocol.values()), in the order the functions were inserted
ProtocolValues(c, protocol) ==
    LET kept == SelectSeq(c.methods, LAMBDA m : m.name \in DOMAIN protocol)
    IN  [i \in DOMAIN kept |-> protocol[kept[i].name]]

\* Geonotebook.class_protocol: builds the class cache on first use
class_protocol(s) ==
    IF s.clsProtocol.built THEN s
    ELSE [s EXCEPT !.clsProtocol = [built |-> TRUE,
                                    protocol |-> BuildProtocol(s.cls)]]

\* the return of class_protocol, s being the state with the cache built
ProtocolReturned(s) ==
    [s EXCEPT !.retv = Val("protocol", "", << >>),
              !.descriptors = ProtocolValues(s.cls, s.clsProtocol.protocol)]

\* Geonotebook.get_protocol
GetProtocol(s) == ProtocolReturned(class_protocol(s))

\* ------------------------------------------- Geonotebook._reconcile_parameters
ParamKeys(params) == { params[i].key : i \in DOMAIN params }

\* param_hash[key]['value']: the last entry of that key wins
ParamValue(params, key) ==
    LET last == CHOOSE i \in DOMAIN params :
                   /\ params[i].key = key
                   /\ \A j \in DOMAIN params : params[j].key = key => j <= i
    IN  params[last].value

\* faulty variant of MissingRequired: the KeyError is not translated
MissingRequired_KeyError(method) == PyExc("KeyError", "missing key")

\* the except KeyError branch
MissingRequired(method) ==
    InvalidParams("missing required params for method: " \o method)

\* args, kwargs of the local call, or the failure
Reconcile(protocol, params) ==
    LET required == protocol.required
        optional == protocol.optional
    IN  IF \E i \in DOMAIN required : required[i].key \notin ParamKeys(params)
        THEN [exc |-> MissingRequired(protocol.procedure),
              args |-> << >>, kwargs |-> << >>]
        ELSE [exc |-> NoExc,
              args |-> [i \in DOMAIN required |->
                           ParamValue(params, required[i].key)],
              kwargs |-> [k \in { optional[i].key : i \in DOMAIN optional }
                                 \cap ParamKeys(params) |->
                             ParamValue(params, k)]]

\* --------------------------------------- Geonotebook: remote RPC wrappers
\* self._remote.f(*args): the stub closure run to its return (the transport
\* of the kernel, comm.send, does not call back)
StubCall(s, f, args) ==
    IF ~s.remote.bound
    THEN Raise(s, PyExc("AttributeError", "'NoneType' object has no attribute"))
    ELSE IF ~HasStub(s, f)
    THEN Raise(s, PyExc("AttributeError", "'Remote' object has no attribute"))
    ELSE LET s1 == ClosureSend(s, StubOf(s, f), args, << >>)
         IN  IF s1.exc # NoExc THEN s1 ELSE ClosureReturn(s1, s1.ret)

\* promise.then(success, self.rpc_error).catch(self.callback_error)
Then(s, cont) ==
    IF s.exc # NoExc THEN s
    ELSE [s EXCEPT !.promises[s.ret].cont = cont, !.retv = PromiseV(s.ret)]

set_center(s, x, y, z) ==
    Then(StubCall(s, "set_center", <<x, y, z>>),
         [kind |-> "set_center", self |-> s.geonotebook.gen])

\* faulty variant of add_layer: the layer is appended when the call is made
add_layer_Speculative(s, name, kind, system, expose_as) ==
    LET zIndex == IF kind # "annotation" THEN Len(s.geonotebook.layers) ELSE -1
        layer  == Layer(name, kind, zIndex, system, expose_as)
        s1     == StubCall(s, "add_layer", <<StrV(name), NullV, DictV, DictV>>)
    IN  IF s1.exc # NoExc THEN s1
        ELSE [s1 EXCEPT !.geonotebook.layers = Append(@, layer)]

\* add_layer(None, name=name, layer_type=kind, ...): the layer is built with
\* zIndex = len(self.layers) unless it is the annotation layer
add_layer(s, name, kind, system, expose_as) ==
    LET zIndex == IF kind # "annotation" THEN Len(s.geonotebook.layers) ELSE -1
        layer  == Layer(name, kind, zIndex, system, expose_as)
    IN  Then(StubCall(s, "add_layer", <<StrV(name), NullV, DictV, DictV>>),
             [kind |-> "add_layer", self |-> s.geonotebook.gen, layer |-> layer])

\* if hasattr(layer_name, 'name'): layer_name = layer_name.name
LayerNameOf(v) == IF v.tag = "named" THEN StrV(v.str) ELSE v

\* the continuation _remove_layer(layer_name) has a parameter of the name of
\* the variable of remove_layer: it reads its argument, and requested records
\* the variable it hides
remove_layer(s, v) ==
    Then(StubCall(s, "remove_layer", <<LayerNameOf(v)>>),
         [kind |-> "remove_layer", self |-> s.geonotebook.gen,
          requested |-> LayerNameOf(v)])

add_annotation(s) ==
    Then(StubCall(s, "add_annotation", <<StrV("point"), ListV(<<1, 2>>), DictV>>),
         [kind |-> "add_annotation", self |-> s.geonotebook.gen])

\* Geonotebook.serialize: 'center' is present when x, y and z are all truthy
serialize(s) ==
    LET v == s.geonotebook.view
        truthy == v.tag = "list" /\ \A i \in DOMAIN v.list : v.list[i] # 0
    IN  [s EXCEPT !.retv = Val("map_state", "", IF truthy THEN v.list ELSE << >>)]

\* getattr(self, method)(*args, **kwargs)
CallLocal(s, method, args, kwargs) ==
    CASE method = "get_protocol" -> GetProtocol(s)
      [] method = "set_center" -> set_center(s, args[1], args[2], args[3])
      [] method = "add_annotation_from_client" ->
            LET r == AddAnnotationFromClient(s)
            IN  IF r.exc # NoExc THEN r ELSE [r EXCEPT !.retv = TrueV]
      [] method = "get_map_state" -> serialize(s)
      [] method = "remove_layer" ->
            remove_layer(s, args[1])
      [] OTHER -> Raise(s, PyExc("AssertionError", "Non data layers require a 'name'"))

\* ------------------------------------------------------ Geonotebook._recv_msg
\* args, kwargs = self._reconcile_parameters(method, params);
\* result = getattr(self, method)(*args, **kwargs)
Returned(s) == IF s.exc = NoExc THEN [s EXCEPT !.returned = TRUE] ELSE s

ReconcileAndCall(s, msg, r) ==
    IF r.exc # NoExc THEN Raise(s, r.exc)
    ELSE Returned(CallLocal([s EXCEPT !.invoked = Append(@, msg.method)],
                            msg.method, r.args, r.kwargs))

\* self._send_msg(json_rpc_result(result, None, id)), reached when nothing
\* was raised before; a Promise in the result is sent or refused, as the
\* serializer of the comm decides
SendResult(s, id, jsonable) ==
    IF s.exc # NoExc THEN s
    ELSE IF s.retv.tag = "promise" /\ ~jsonable
    THEN Raise(s, PyExc("TypeError", "Promise is not JSON serializable"))
    ELSE Send(s, json_rpc_result(s.retv, NoError, id))

\* faulty variant of WrapException: every failure is wrapped
WrapException_Always(e) == ServerError(e.message)

\* except Exception as e: a protocol error is re-raised, another is wrapped
WrapException(e) == IF IsJSONRPCError(e) THEN e ELSE ServerError(e.message)

\* the except clause of the request branch, s being the state the try
\* block ended in
ExceptClause(s) ==
    IF s.exc = NoExc THEN s
    ELSE [s EXCEPT !.raised = s.exc, !.exc = WrapException(s.exc)]

\* the request branch, msg['method'] being in self._protocol
Dispatch(s, msg, jsonable) ==
    ExceptClause(
        SendResult(
            ReconcileAndCall(s, msg,
                Reconcile(s.clsProtocol.protocol[msg.method], msg.params)),
            msg.id, jsonable))

recv_msg(s, msg, jsonable) ==
    IF is_response(msg)
    THEN IF s.remote.bound THEN resolve(s, msg)
         ELSE Raise(s, PyExc("AttributeError", "'NoneType' object has no attribute 'resolve'"))
    ELSE IF is_request(msg)
    THEN IF ~s.clsProtocol.built
         THEN Raise(s, PyExc("AttributeError", "'NoneType' object has no attribute 'keys'"))
         ELSE IF msg.method \in DOMAIN s.clsProtocol.protocol
         THEN Dispatch(s, msg, jsonable)
         ELSE Raise(s, MethodNotFound("Method not allowed"))
    ELSE Raise(s, ParseError("Could not parse msg"))

\* ------------------------------------------- GeonotebookKernel.handle_comm_msg
\* faulty variant of ErrorReply: the protocol error is logged and not sent
ErrorReply_LogOnly(s, e, msg) == Log(s, "jsonrpc_error")

\* except jsonrpc.JSONRPCError as e
ErrorReply(s, e, msg) ==
    IF "id" \in DOMAIN msg
    THEN Log(Send(s, json_rpc_result(NullV, tojson(e), msg.id)), "jsonrpc_error")
    ELSE Raise(s, PyExc("KeyError", "id"))

\* the except clauses of handle_comm_msg, s being the state _recv_msg
\* ended in
ExceptClauses(s, msg) ==
    IF s.exc = NoExc THEN s
    ELSE IF IsJSONRPCError(s.exc)
    THEN ErrorReply([s EXCEPT !.exc = NoExc, !.caught = s.exc], s.exc, msg)
    ELSE Log([s EXCEPT !.exc = NoExc, !.caught = s.exc], "error_processing")

handle_comm_msg(s, msg, jsonable) ==
    IF ~s.geonotebook.alive
    THEN Log(s, "error_processing")
    ELSE ExceptClauses(recv_msg(s, msg, jsonable), msg)

\* --------------------------------------------------------------- inputs
\* response envelopes the remote peer may send to a bare Remote
StubResponses ==
    { json_rpc_result(r, e, i) :
        r \in {NullV, IntV(5)}, e \in {NoError, RemoteError}, i \in 1..MaxStubCalls + 1 }

\* -------------------------------------- a Remote used on its own
\* Remote(transport, protocol) with the one procedure d: the transport is any
\* function of the caller, so it may deliver a response before it returns
RemoteOf(d) ==
    /\ geonotebook = NoGeonotebook
    /\ cls = GeonotebookClass
    /\ clsProtocol = NoProtocol
    /\ remote = [bound |-> TRUE, gen |-> 1, protocol |-> <<d>>]
    /\ promises = << >>
    /\ initializing = TRUE
    /\ comm = FALSE
    /\ nextId = 1
    /\ outbox = << >>
    /\ log = << >>
    /\ escaped = NoExc
    /\ pc = Idle
    /\ call = NoCall

\* the procedure f(a, b, c = default)
ScenarioDescriptor == Desc("f", <<"a", "b">>, <<"c">>)

InitRemote == RemoteOf(ScenarioDescriptor)

InitStub == \E d \in Descriptors : RemoteOf(d)

\* the keyword keys a caller passes: the declared optional keys and one more
KwKeysOf(d) == { d.optional[i].key : i \in DOMAIN d.optional } \cup {UndeclaredKey}

\* remote.f(*args, **kwargs) up to the call of the transport
Invoke(n, K) ==
    /\ Quiet
    /\ remote.bound
    /\ nextId <= MaxStubCalls
    /\ LET d      == StubOf(Cur, "f")
           args   == ArgsOf(n)
           kwargs == KwargsOf(K)
           s      == ClosureSend(Entry, d, args, kwargs)
           ok     == s.exc = NoExc
       IN  /\ Commit(s)
           /\ pc' = IF ok THEN [op |-> "send", id |-> s.ret] ELSE Idle
           /\ call' = [op |-> "invoke", protocol |-> d, args |-> args,
                       kwargs |-> kwargs, accepted |-> ok, id |-> s.ret,
                       reply |-> "none", done |-> ~ok, ret |-> 0]

\* the transport, before returning, hands a response to remote.resolve
SinkReply(msg) ==
    /\ pc.op = "send"
    /\ call.reply = "none"
    /\ LET s == resolve(Cur, msg)
       IN  /\ Commit(s)
           /\ pc' = IF s.exc = NoExc THEN pc ELSE Idle
           /\ call' = [call EXCEPT
                         !.reply = IF msg.id # pc.id THEN "other"
                                   ELSE IF msg.error # NoError THEN "rejected"
                                   ELSE "fulfilled",
                         !.done = s.exc # NoExc]

\* the transport returns and the closure returns self._promises[msg['id']]
InvokeReturn ==
    /\ pc.op = "send"
    /\ LET s == ClosureReturn(Cur, pc.id)
       IN  /\ Commit(s)
           /\ pc' = Idle
           /\ call' = [call EXCEPT !.done = TRUE, !.ret = s.ret]

\* remote.resolve(msg) called by the owner of the Remote
Resolve(msg) ==
    /\ Quiet
    /\ remote.bound
    /\ LET s == resolve(Entry, msg)
       IN  /\ Commit(s)
           /\ pc' = Idle
           /\ call' = [op |-> "resolve", msg |-> msg,
                       known |-> msg.id \in Table(Cur),
                       before |-> promises]

\* the top-level call has returned to its caller
Return ==
    /\ call # NoCall
    /\ pc = Idle
    /\ call' = NoCall
    /\ outbox' = << >>
    /\ log' = << >>
    /\ escaped' = NoExc
    /\ UNCHANGED <<geonotebook, cls, clsProtocol, remote, promises, initializing,
                   comm, nextId, pc>>

InvokeAny ==
    \E n \in 0..Len(StubOf(Cur, "f").required) + Len(StubOf(Cur, "f").optional) + 1,
       K \in SUBSET KwKeysOf(StubOf(Cur, "f")) : Invoke(n, K)

NextRemote ==
    \/ InvokeAny
    \/ \E msg \in StubResponses : SinkReply(msg)
    \/ InvokeReturn
    \/ \E msg \in StubResponses : Resolve(msg)
    \/ Return

\* one Remote, its stub f(a, b, c = default), responses and re-entrant replies
SpecRemote == InitRemote /\ [][NextRemote]_vars

NextStub ==
    \/ InvokeAny
    \/ InvokeReturn
    \/ Return

\* the stub of every descriptor shape, called with every argument shape
SpecStub == InitStub /\ [][NextStub]_vars


\* ------------------------------------------------------------ kernel inputs
\* the protocol of the remote peer, carried by the comm_open message
ClientProtocol ==
    << Desc("set_center", <<"x", "y", "z">>, << >>),
       Desc("add_layer",
            <<"layer_name", "vis_url", "vis_params", "query_params">>, << >>),
       Desc("remove_layer", <<"layer_name">>, << >>),
       Desc("add_annotation", <<"type", "args", "kwargs">>, << >>) >>

\* the protocol of a client that has no add_annotation procedure
ReducedClientProtocol == SubSeq(ClientProtocol, 1, 3)

ClientProtocols == {ClientProtocol, ReducedClientProtocol}

\* the result the peer computes for a request of procedure f
ResultOf(f) ==
    CASE f = "set_center" -> ListV(<<1, 2, 3>>)
      [] f = "add_annotation" -> DictV
      [] OTHER -> StrV("osm_base")

Param(k, v) == make_param(k, v, TRUE)

RequestId == 100

\* request envelopes of the remote peer
Requests ==
    { json_rpc_request(m, << >>, RequestId) :
        m \in {"get_protocol", "get_map_state", "add_layer", "remove_layer",
               "no_such_method"} }
    \cup { json_rpc_request("set_center", ps, RequestId) :
            ps \in { <<Param("x", IntV(1)), Param("y", IntV(2)), Param("z", IntV(3))>>,
                     <<Param("x", IntV(1)), Param("y", IntV(2))>> } }
    \cup { json_rpc_request("add_annotation_from_client", ps, RequestId) :
            ps \in { <<Param("ann_type", StrV("point")),
                       Param("coords", ListV(<<1, 2>>)), Param("meta", DictV)>>,
                     <<Param("ann_type", StrV("point")), Param("meta", DictV)>> } }

\* inbound messages that are neither a request nor a response: a push
\* without id, and an envelope that has an id and nothing else
Malformed == { [data |-> NullV], [id |-> RequestId] }

\* the procedure of the request the peer received under id i
RequestedBy(i) ==
    IF i \in DOMAIN promises THEN promises[i].cont.kind ELSE "none"

\* response envelopes of the remote peer: for each id, the result of the
\* procedure requested under it, a null result, or an error
Responses ==
    UNION { { json_rpc_result(ResultOf(RequestedBy(i)), NoError, i),
              json_rpc_result(NullV, NoError, i),
              json_rpc_result(NullV, RemoteError, i) } : i \in 1..MaxIds + 1 }

\* ------------------------------------------------------- GeonotebookKernel
\* GeonotebookKernel.__init__
Init ==
    /\ geonotebook = NoGeonotebook
    /\ cls = GeonotebookClass
    /\ clsProtocol = NoProtocol
    /\ remote = NoRemote
    /\ promises = << >>
    /\ initializing = TRUE
    /\ comm = FALSE
    /\ nextId = 1
    /\ outbox = << >>
    /\ log = << >>
    /\ escaped = NoExc
    /\ pc = Idle
    /\ call = NoCall

\* Geonotebook(kernel)
NewGeonotebook(gen) ==
    [alive |-> TRUE, gen |-> gen, view |-> NullV, layers |-> << >>]

Done(s, c) == Commit(s) /\ pc' = Idle /\ call' = c

\* GeonotebookKernel.start
Start ==
    /\ Quiet
    /\ geonotebook.gen = 0
    /\ Done([Entry EXCEPT !.geonotebook = NewGeonotebook(1)], [op |-> "start"])

\* faulty variant of handle_comm_open: the flag is not cleared
handle_comm_open_KeepFlag(s, protocol) ==
    LET s0 == [s EXCEPT !.comm = TRUE]
        s1 == [s0 EXCEPT !.remote = [bound |-> TRUE, gen |-> @.gen + 1,
                                     protocol |-> protocol]]
        s2 == Send(GetProtocol(s1),
                   [method |-> "set_protocol", data |-> Val("protocol", "", << >>)])
    IN  IF ~s.geonotebook.alive
        THEN Raise(s0, PyExc("AttributeError", "'NoneType' object has no attribute '_remote'"))
        ELSE IF ~s.initializing THEN s2
        ELSE add_layer(add_layer(s2, "osm_base", "osm", TRUE, ""),
                       "annotation", "annotation", TRUE, "annotation")

\* faulty variant of handle_comm_open: the protocol push follows the bootstrap
handle_comm_open_PushLast(s, protocol) ==
    LET s0 == [s EXCEPT !.comm = TRUE]
        s1 == [s0 EXCEPT !.remote = [bound |-> TRUE, gen |-> @.gen + 1,
                                     protocol |-> protocol]]
        push == [method |-> "set_protocol", data |-> Val("protocol", "", << >>)]
    IN  IF ~s.geonotebook.alive
        THEN Raise(s0, PyExc("AttributeError", "'NoneType' object has no attribute '_remote'"))
        ELSE IF ~s.initializing THEN Send(GetProtocol(s1), push)
        ELSE [Send(GetProtocol(
                 add_layer(add_layer(s1, "osm_base", "osm", TRUE, ""),
                           "annotation", "annotation", TRUE, "annotation")),
                 push) EXCEPT !.initializing = FALSE]

handle_comm_open(s, protocol) ==
    LET s0 == [s EXCEPT !.comm = TRUE]
        s1 == [s0 EXCEPT !.remote = [bound |-> TRUE, gen |-> @.gen + 1,
                                     protocol |-> protocol]]
        s2 == Send(GetProtocol(s1),
                   [method |-> "set_protocol", data |-> Val("protocol", "", << >>)])
        s3 == add_layer(s2, "osm_base", "osm", TRUE, "")
        s4 == add_layer(s3, "annotation", "annotation", TRUE, "annotation")
    IN  IF ~s.geonotebook.alive
        THEN Raise(s0, PyExc("AttributeError", "'NoneType' object has no attribute '_remote'"))
        ELSE IF ~s.initializing THEN s2
        ELSE IF s3.exc # NoExc THEN s3
        ELSE IF s4.exc # NoExc THEN s4
        ELSE [s4 EXCEPT !.initializing = FALSE]

\* the comm manager calls handle_comm_open for a comm_open message; it closes
\* the new comm when the handler raises, so that nothing is delivered on it
\* and the registration made on it is void
CommOpenUpTo(n, protocol) ==
    /\ Quiet
    /\ geonotebook.gen > 0
    /\ remote.gen < n
    /\ \E s \in {handle_comm_open(Entry, protocol)} :
           /\ s.nextId <= MaxIds + 1
           /\ Done(IF s.exc = NoExc THEN s ELSE [s EXCEPT !.comm = comm],
                   [op |-> "comm_open", alive |-> geonotebook.alive,
                        protocol |-> protocol, gen |-> remote.gen,
                        bound |-> remote.bound])

CommOpen == CommOpenUpTo(MaxOpens, ClientProtocol)

\* the comm delivers msg to handle_comm_msg, fewer than n ids being in use
CommMsgUpTo(n, msg, jsonable) ==
    /\ Quiet
    /\ comm
    /\ \E s \in {handle_comm_msg(Entry, msg, jsonable)} :
           /\ s.nextId <= n
           /\ AnnotationCount(s.geonotebook.layers) <= MaxAnnotations
           /\ Done(s, [op |-> "comm_msg", msg |-> msg, alive |-> geonotebook.alive,
                    before |-> [geonotebook |-> geonotebook, promises |-> promises,
                                clsProtocol |-> clsProtocol],
                    invoked |-> s.invoked, returned |-> s.returned,
                    retv |-> s.retv, raised |-> s.raised,
                    caught |-> s.caught])

CommMsg(msg, jsonable) == CommMsgUpTo(MaxIds + 1, msg, jsonable)

\* faulty variant of do_shutdown: the protocol cache belongs to the
\* controller instance and goes with it
do_shutdown_InstanceCache(s, restart) ==
    IF restart
    THEN [s EXCEPT !.geonotebook = NewGeonotebook(@.gen + 1), !.remote.bound = FALSE,
                   !.clsProtocol = NoProtocol]
    ELSE [s EXCEPT !.geonotebook.alive = FALSE, !.remote.bound = FALSE,
                   !.clsProtocol = NoProtocol]

\* GeonotebookKernel.do_shutdown
do_shutdown(s, restart) ==
    IF restart
    THEN [s EXCEPT !.geonotebook = NewGeonotebook(@.gen + 1), !.remote.bound = FALSE]
    ELSE [s EXCEPT !.geonotebook.alive = FALSE, !.remote.bound = FALSE]

Shutdown(restart) ==
    /\ Quiet
    /\ geonotebook.alive
    /\ restart => geonotebook.gen <= MaxRestarts
    /\ Done(do_shutdown(Entry, restart), [op |-> "shutdown", restart |-> restart])

\* the remote-calling operations the user of the notebook runs
UserOps == {"set_center"}

\* M.set_center(1, 2, 3) and the other remote-calling operations, run by the
\* user of the notebook
UserCall(op) ==
    /\ Quiet
    /\ geonotebook.alive
    /\ nextId <= MaxIds
    /\ LET s == CASE op = "set_center" -> set_center(Entry, IntV(1), IntV(2), IntV(3))
                  [] op = "add_layer" -> add_layer(Entry, "l1", "nodata", FALSE, "")
                  [] op = "remove_layer" -> remove_layer(Entry, StrV("osm_base"))
                  [] op = "remove_layer_of" ->
                        remove_layer(Entry, NamedV("osm_base"))
                  [] op = "add_annotation" -> add_annotation(Entry)
       IN  Done(s, [op |-> op])

Next ==
    \/ Start
    \/ CommOpen
    \/ \E msg \in Requests \cup Responses \cup Malformed : CommMsg(msg, TRUE)
    \/ \E msg \in Requests :
          /\ msg.method = "set_center" /\ Len(msg.params) = 3
          /\ CommMsg(msg, FALSE)
    \/ \E restart \in BOOLEAN : Shutdown(restart)
    \/ \E op \in UserOps : UserCall(op)
    \/ Return

\* the kernel: comm opens, requests and responses of the peer, shutdown, and
\* set_center run by the user
Spec == Init /\ [][Next]_vars

AllUserOps ==
    {"set_center", "add_layer", "remove_layer", "remove_layer_of",
     "add_annotation"}

NextOps ==
    \/ Start
    \/ CommOpen
    \/ \E msg \in Responses : CommMsg(msg, TRUE)
    \/ \E op \in AllUserOps : UserCall(op)
    \/ Return

\* the kernel: comm opens, every remote-calling operation run by the user,
\* and the responses of the peer
SpecOps == Init /\ [][NextOps]_vars

NextSession ==
    \/ Start
    \/ \E protocol \in ClientProtocols : CommOpenUpTo(MaxSessionOpens, protocol)
    \/ \E msg \in Requests \cup Responses \cup Malformed : CommMsg(msg, TRUE)
    \/ Shutdown(FALSE)
    \/ Return

\* the channel lifecycle without restart: the comm is opened and reopened,
\* the peer sends requests and responses, the kernel may shut down
SpecSession == Init /\ [][NextSession]_vars

\* ------------------------------------------- class_protocol on its own
ArgPool == <<"p", "q", "r", "t">>

\* a function of a class: self, n more arguments, the last d with a default
Method(name, n, d) ==
    [name |-> name, args |-> <<"self">> \o SubSeq(ArgPool, 1, n), defaults |-> d]

NoMethod == [name |-> "", args |-> << >>, defaults |-> 0]

MethodOptions(name) ==
    {NoMethod} \cup UNION { { Method(name, n, d) : d \in 0..n } : n \in 0..MaxArgs }

\* classes with the functions f and g, each present in some shape or absent
ClassMethods ==
    { SelectSeq(<<f, g>>, LAMBDA m : m # NoMethod) :
        f \in MethodOptions("f"), g \in MethodOptions("g") }

\* msg_types lists of a class: any of f, g and k, k being no function of it
Classes ==
    { [methods |-> ms, msg_types |-> T] :
        ms \in ClassMethods, T \in SUBSET {"f", "g", "k"} }

InitProtocol ==
    /\ geonotebook = NoGeonotebook
    /\ cls \in Classes
    /\ clsProtocol = NoProtocol
    /\ remote = NoRemote
    /\ promises = << >>
    /\ initializing = TRUE
    /\ comm = FALSE
    /\ nextId = 1
    /\ outbox = << >>
    /\ log = << >>
    /\ escaped = NoExc
    /\ pc = Idle
    /\ call = NoCall

\* do_shutdown(restart = True): a new controller instance is installed
Restart ==
    /\ Quiet
    /\ geonotebook.alive
    /\ geonotebook.gen < MaxInstances
    /\ Done(do_shutdown(Entry, TRUE), [op |-> "shutdown", restart |-> TRUE])

\* M.get_protocol()
CallGetProtocol ==
    /\ Quiet
    /\ geonotebook.alive
    /\ \E s \in {GetProtocol(Entry)} :
           Done(s, [op |-> "get_protocol", descriptors |-> s.descriptors,
                    before |-> clsProtocol, gen |-> geonotebook.gen])

NextProtocol ==
    \/ Start
    \/ Restart
    \/ CallGetProtocol
    \/ Return

\* get_protocol of the controller instances of a class, for every class
SpecProtocol == InitProtocol /\ [][NextProtocol]_vars

\* ------------------------------------------- the lifecycle of the kernel
\* do_shutdown called by the kernel machinery, whether or not the kernel
\* holds a controller
DoShutdown(restart) ==
    /\ Quiet
    /\ geonotebook.gen > 0
    /\ restart => geonotebook.gen < MaxInstances
    /\ Done(do_shutdown(Entry, restart),
            [op |-> "shutdown", restart |-> restart,
             before |-> [geonotebook |-> geonotebook,
                         initializing |-> initializing]])

\* requests of the peer in the lifecycle of the kernel
LifecycleRequests ==
    { json_rpc_request(m, << >>, RequestId) : m \in {"get_map_state", "add_layer"} }

NextLifecycle ==
    \/ Start
    \/ CommOpenUpTo(MaxSessionOpens, ClientProtocol)
    \/ \E msg \in Responses \cup LifecycleRequests : CommMsg(msg, TRUE)
    \/ \E restart \in BOOLEAN : DoShutdown(restart)
    \/ \E op \in UserOps : UserCall(op)
    \/ Return

\* the kernel over its whole life: start, comm opens and reopens, messages
\* of the peer, set_center run by the user, shutdown and restart in any order
SpecLifecycle == Init /\ [][NextLifecycle]_vars

\* ------------------------------------------------------- the viewport
Coordinates == -1..MaxCoordinate

\* centers of a map: each coordinate takes every value while the others are
\* 1, and the three take every value together
Centers ==
    UNION { { <<c, 1, 1>>, <<1, c, 1>>, <<1, 1, c>>, <<c, c, c>> } :
              c \in Coordinates }

\* responses of the peer to the set_center requests it received: the center
\* the map moved to
CenterResponses ==
    { json_rpc_result(ListV(center), NoError, i) :
        center \in Centers,
        i \in { j \in 1..MaxIds + 1 : RequestedBy(j) = "set_center" } }

\* M.set_center(1, 2, 3) run by the user, once more than the other operations
SetCenterCall ==
    /\ Quiet
    /\ geonotebook.alive
    /\ nextId <= MaxIds + 1
    /\ Done(set_center(Entry, IntV(1), IntV(2), IntV(3)), [op |-> "set_center"])

NextView ==
    \/ Start
    \/ CommOpen
    \/ \E msg \in CenterResponses : CommMsgUpTo(MaxIds + 2, msg, TRUE)
    \/ CommMsgUpTo(MaxIds + 2,
                   json_rpc_request("get_map_state", << >>, RequestId), TRUE)
    \/ SetCenterCall
    \/ Return

\* the kernel: set_center run by the user, the centers the peer answers
\* with, and get_map_state requested by the peer
SpecView == Init /\ [][NextView]_vars

\* ===================================================================== claims
NArgs == Len(call.args) + Cardinality(DOMAIN call.kwargs)

\* C1 (as stated): an invoke is accepted exactly when the number of positional
\* plus keyword arguments lies between R and R+O; a refused invoke raises the
\* arity error, sends nothing and registers nothing.
C1_ArityCountsAllArguments ==
    call.op = "invoke" =>
        LET R == Len(call.protocol.required)
            O == Len(call.protocol.optional)
        IN  /\ call.accepted <=> (R <= NArgs /\ NArgs <= R + O)
            /\ ~call.accepted =>
                   /\ escaped.kind = "AssertionError"
                   /\ outbox = << >>
                   /\ nextId \notin DOMAIN promises

\* C2: the request of an accepted invoke carries the method of the stub, one
\* required entry per required key with the positional value of the same
\* index, then one non-required entry per optional key given as a keyword, in
\* declared order; an optional key not given has no entry.
C2_RequestParams ==
    (call.op = "invoke" /\ call.accepted) =>
        LET d    == call.protocol
            R    == Len(d.required)
            msg  == outbox[1]
            ps   == msg.params
            given == { i \in 1..Len(d.optional) : d.optional[i].key \in DOMAIN call.kwargs }
            pos(k) == CHOOSE i \in 1..Len(d.optional) : d.optional[i].key = k
        IN  /\ msg.method = d.procedure
            /\ msg.id = call.id
            /\ Len(ps) = R + Cardinality(given)
            /\ \A i \in 1..R :
                   ps[i] = [key |-> d.required[i].key, value |-> call.args[i],
                            required |-> TRUE]
            /\ \A i \in given : \E j \in R + 1..Len(ps) :
                   ps[j] = [key |-> d.optional[i].key,
                            value |-> call.kwargs[d.optional[i].key],
                            required |-> FALSE]
            /\ \A j \in R + 1..Len(ps) :
                   /\ ps[j].key \in DOMAIN call.kwargs
                   /\ \E i \in given : d.optional[i].key = ps[j].key
            /\ \A j, k \in R + 1..Len(ps) :
                   j < k => pos(ps[j].key) < pos(ps[k].key)

\* C2 witness: a stub with two required and two optional keys is invoked with
\* the second optional key only, and the request has three params.
C2_Witness ==
    /\ call.op = "invoke" /\ call.accepted
    /\ Len(call.protocol.required) = 2 /\ Len(call.protocol.optional) = 2
    /\ DOMAIN call.kwargs = {OptKeyPool[2]}
    /\ Len(outbox[1].params) = 3

\* C3: when the transport is called with the request of id i the table maps
\* i to a pending promise; the closure returns the promise registered under
\* i, settled by a response for i that the transport delivered meanwhile.
C3_RegisteredBeforeSend ==
    /\ pc.op = "send" =>
          /\ outbox[Len(outbox)].id = pc.id
          /\ pc.id \in Table(Cur)
          /\ call.reply = "none" => promises[pc.id].state = "pending"
          /\ call.reply = "fulfilled" => promises[pc.id].state = "fulfilled"
          /\ call.reply = "rejected" => promises[pc.id].state = "rejected"
    /\ (call.op = "invoke" /\ call.accepted /\ call.done /\ escaped = NoExc) =>
          /\ call.ret = call.id
          /\ call.id \in Table(Cur)
          /\ call.reply \in {"none", "other"} => promises[call.id].state = "pending"
          /\ call.reply = "fulfilled" => promises[call.id].state = "fulfilled"
          /\ call.reply = "rejected" => promises[call.id].state = "rejected"

\* C3 witness: an invoke has returned the promise that a same-turn response
\* fulfilled.
C3_Witness ==
    /\ call.op = "invoke" /\ call.accepted /\ call.done
    /\ call.reply = "fulfilled"
    /\ call.ret = call.id
    /\ promises[call.id].state = "fulfilled"

\* C4: resolve of a response whose id has a pending promise rejects it with
\* the error when the error is non-null and fulfills it with the result
\* otherwise; the other promises keep their state and the entry stays.
C4_ResolveSettles ==
    (call.op = "resolve" /\ call.known
        /\ call.before[call.msg.id].state = "pending") =>
        LET id == call.msg.id
        IN  /\ DOMAIN promises = DOMAIN call.before
            /\ id \in Table(Cur)
            /\ call.msg.error # NoError =>
                   /\ promises[id].state = "rejected"
                   /\ promises[id].reason = call.msg.error
            /\ call.msg.error = NoError =>
                   /\ promises[id].state = "fulfilled"
                   /\ promises[id].value = call.msg.result
            /\ \A j \in DOMAIN promises \ {id} : promises[j] = call.before[j]
            /\ escaped = NoExc

\* C4 witness: a response carrying both a result and an error has rejected a
\* pending promise while another promise stays pending.
C4_Witness ==
    /\ call.op = "resolve" /\ call.known
    /\ call.before[call.msg.id].state = "pending"
    /\ call.msg.error # NoError /\ call.msg.result # NullV
    /\ promises[call.msg.id].state = "rejected"
    /\ \E j \in DOMAIN promises \ {call.msg.id} : promises[j].state = "pending"

\* C5 (as stated): resolve of a response whose id is not in the table settles
\* nothing, raises nothing, writes a warning and sends nothing.
C5_UnknownIdWarns ==
    (call.op = "resolve" /\ ~call.known) =>
        /\ promises = call.before
        /\ outbox = << >>
        /\ escaped = NoExc
        /\ \E i \in DOMAIN log : log[i] = "warn"


\* the reply of handle_comm_msg to the request it handled
Reply == outbox[Len(outbox)]

RequestHandled == call.op = "comm_msg" /\ call.alive /\ is_request(call.msg)

C7_MethodNotFound ==
    (RequestHandled
        /\ call.msg.method \notin {"get_protocol", "set_center",
                                   "add_annotation_from_client", "get_map_state"}) =>
        /\ outbox = <<json_rpc_result(NullV,
                         [code |-> -32601, message |-> "Method not allowed"],
                         call.msg.id)>>
        /\ call.caught.kind = "MethodNotFound"
        /\ call.invoked = << >>
        /\ geonotebook = call.before.geonotebook
        /\ promises = call.before.promises
        /\ escaped = NoExc

\* C7 witness: a request for add_layer has been refused while the controller
\* holds a layer and a pending promise.
C7_Witness ==
    /\ RequestHandled
    /\ call.msg.method = "add_layer"
    /\ Reply.error.code = -32601
    /\ Len(geonotebook.layers) > 0
    /\ \E i \in Table(Cur) : promises[i].state = "pending"

RequiredKeysOf(method) ==
    CASE method = "set_center" -> {"x", "y", "z"}
      [] method = "add_annotation_from_client" -> {"ann_type", "coords", "meta"}
      [] OTHER -> {}

\* C8: a request for an exposed method whose params lack a required key is
\* answered with InvalidParams; the local procedure is not invoked and the
\* viewport, the layers and the promises are unchanged. A params list that
\* holds the required keys and no optional key reconciles without failure.
C8_InvalidParams ==
    /\ (RequestHandled
          /\ call.msg.method \in {"get_protocol", "set_center",
                                  "add_annotation_from_client", "get_map_state"}
          /\ RequiredKeysOf(call.msg.method) \ ParamKeys(call.msg.params) # {}) =>
          /\ outbox = <<json_rpc_result(NullV,
                           [code |-> -32602,
                            message |-> "missing required params for method: "
                                            \o call.msg.method],
                           call.msg.id)>>
          /\ call.invoked = << >>
          /\ geonotebook = call.before.geonotebook
          /\ promises = call.before.promises
          /\ escaped = NoExc
    /\ \A d \in Descriptors :
          LET ps == [i \in DOMAIN d.required |-> Param(d.required[i].key, IntV(i))]
              r  == Reconcile(d, ps)
          IN  r.exc = NoExc /\ Len(r.args) = Len(d.required) /\ DOMAIN r.kwargs = {}

\* C8 witness: set_center was requested with x and y only and refused with
\* code -32602.
C8_Witness ==
    /\ RequestHandled
    /\ call.msg.method = "set_center"
    /\ ParamKeys(call.msg.params) = {"x", "y"}
    /\ Reply.error.code = -32602

ProtocolErrorKinds ==
    {"ParseError", "InvalidRequest", "MethodNotFound", "InvalidParams",
     "InternalError", "ServerError"}

\* C9: a failure raised while a request is dispatched that is no protocol
\* error is answered as ServerError (-32000) with the message of the failure;
\* a protocol error is answered with its own code and message.
C9_ServerErrorWraps ==
    (RequestHandled /\ call.raised # NoExc) =>
        /\ Reply.id = call.msg.id
        /\ Reply.result = NullV
        /\ Reply.error.message = call.raised.message
        /\ Reply.error.code = IF call.raised.kind \in ProtocolErrorKinds
                              THEN call.raised.code ELSE -32000

\* C9 witness: add_annotation_from_client was invoked, failed for want of an
\* annotation layer, and was answered with code -32000 and that message.
C9_Witness ==
    /\ RequestHandled
    /\ call.invoked = <<"add_annotation_from_client">>
    /\ call.raised.kind = "AttributeError"
    /\ Reply.error = [code |-> -32000, message |-> call.raised.message]

\* C10: a request of id i whose handling ends in MethodNotFound,
\* InvalidParams or ServerError is answered with exactly one result envelope
\* of id i, with a null result and the error object of that failure.
C10_OneErrorEnvelope ==
    (RequestHandled
        /\ call.caught.kind \in {"MethodNotFound", "InvalidParams", "ServerError"}) =>
        LET replies == { i \in DOMAIN outbox :
                            is_response(outbox[i]) /\ outbox[i].id = call.msg.id }
        IN  /\ Cardinality(replies) = 1
            /\ \A i \in replies :
                   outbox[i] = json_rpc_result(NullV,
                                  [code |-> call.caught.code,
                                   message |-> call.caught.message],
                                  call.msg.id)
            /\ escaped = NoExc

\* C10 witness: an inbound set_center sent its own request to the peer, the
\* reply carrying the promise was refused by the transport, and the one
\* envelope of the request id is the ServerError.
C10_Witness ==
    /\ RequestHandled
    /\ call.msg.method = "set_center"
    /\ call.caught.kind = "ServerError"
    /\ Len(outbox) = 2
    /\ is_request(outbox[1])
    /\ outbox[2].error.code = -32000

Unclassifiable(msg) == ~is_request(msg) /\ ~is_response(msg)

\* C11 (as stated): handle_comm_msg returns normally for every inbound
\* message; a message that is neither request nor response and has no id is
\* taken as a parse error, is logged, and no envelope is sent for it.
C11_NeverEscapes ==
    call.op = "comm_msg" =>
        /\ escaped = NoExc
        /\ (call.alive /\ Unclassifiable(call.msg) /\ "id" \notin DOMAIN call.msg) =>
               /\ call.caught.kind = "ParseError"
               /\ outbox = << >>
               /\ log # << >>

\* C12 (as stated): a request of id i whose local procedure returned
\* normally is answered, within its own handling, with exactly one result
\* envelope of id i carrying the returned value and a null error, whatever
\* was requested and answered before.
C12_SuccessReply ==
    (RequestHandled /\ call.returned) =>
        LET replies == { i \in DOMAIN outbox :
                            is_response(outbox[i]) /\ outbox[i].id = call.msg.id }
        IN  /\ Cardinality(replies) = 1
            /\ \A i \in replies :
                   outbox[i] = json_rpc_result(call.retv, NoError, call.msg.id)

LayerNames(g) == [i \in DOMAIN g.layers |-> g.layers[i].name]

\* C13: the sequence of layers of a controller changes only in a step that
\* handles a response without error for a pending add_layer or remove_layer
\* promise; a step that lengthens it appends the layer of that add_layer
\* call. Calling add_layer or remove_layer, and a response with an error,
\* leave it as it was.
C13_LayersFollowAcks ==
    [][(/\ geonotebook'.gen = geonotebook.gen
        /\ geonotebook'.alive
        /\ LayerNames(geonotebook') # LayerNames(geonotebook)) =>
           /\ call'.op = "comm_msg"
           /\ is_response(call'.msg)
           /\ call'.msg.error = NoError
           /\ call'.msg.id \in DOMAIN promises
           /\ promises[call'.msg.id].state = "pending"
           /\ promises[call'.msg.id].cont.kind \in {"add_layer", "remove_layer"}
           /\ Len(geonotebook'.layers) > Len(geonotebook.layers) =>
                 /\ promises[call'.msg.id].cont.kind = "add_layer"
                 /\ geonotebook'.layers =
                        Append(geonotebook.layers, promises[call'.msg.id].cont.layer)]_vars

\* C13 witness: the response that fulfilled the add_layer call of the user
\* has been handled and the layer, absent before, is in the collection.
C13_Witness ==
    /\ call.op = "comm_msg" /\ is_response(call.msg)
    /\ call.msg.error = NoError
    /\ ~HasLayer(call.before.geonotebook.layers, "l1")
    /\ HasLayer(geonotebook.layers, "l1")
    /\ \E i \in DOMAIN promises :
          promises[i].state = "rejected" /\ promises[i].cont.kind = "add_layer"

BootstrapRequests(name) ==
    { i \in DOMAIN promises :
         /\ promises[i].cont.kind = "add_layer"
         /\ promises[i].cont.layer.name = name }

\* C14: without restart, each of the two bootstrap add_layer requests
\* ('osm_base' and 'annotation') is sent exactly once, by the first comm
\* open; a later open sends no request, and the collection never holds two
\* layers of either name.
C14_BootstrapOnce ==
    /\ \A name \in {"osm_base", "annotation"} :
          /\ Cardinality(BootstrapRequests(name)) <= 1
          /\ remote.gen >= 1 =>
                /\ Cardinality(BootstrapRequests(name)) = 1
                /\ \A i \in BootstrapRequests(name) : promises[i].remote = 1
          /\ Cardinality({ i \in DOMAIN geonotebook.layers :
                              geonotebook.layers[i].name = name }) <= 1
    /\ (call.op = "comm_open" /\ remote.gen > 1) =>
          \A i \in DOMAIN outbox : ~is_request(outbox[i])
    /\ remote.gen >= 1 => ~initializing

\* C14 witness: the comm has been reopened after both bootstrap layers were
\* acknowledged, and the reopen sent the protocol push only.
C14_Witness ==
    /\ call.op = "comm_open"
    /\ remote.gen = 2
    /\ Len(geonotebook.layers) = 2
    /\ Len(outbox) = 1

\* C15: a comm open handled by a kernel that holds a controller binds a new
\* Remote built from the protocol of the opening message; the first message
\* it sends is the 'set_protocol' push, which has no id; every other message
\* it sends is a request, and the promises of the new Remote are those of
\* these requests, none for the push.
C15_ProtocolPushFirst ==
    (call.op = "comm_open" /\ call.alive) =>
        LET requests == { outbox[i].id : i \in 2..Len(outbox) }
        IN  /\ escaped = NoExc
            /\ remote.bound
            /\ remote.gen = call.gen + 1
            /\ remote.protocol = call.protocol
            /\ Len(outbox) >= 1
            /\ outbox[1].method = "set_protocol"
            /\ "id" \notin DOMAIN outbox[1]
            /\ \A i \in 2..Len(outbox) : is_request(outbox[i])
            /\ Table(Cur) = requests
            /\ Cardinality(requests) = Len(outbox) - 1

\* C15 witness: a reopen by a client without add_annotation has bound a new
\* Remote with an empty table and sent the push alone, while a promise of
\* the first Remote is still pending.
C15_Witness ==
    /\ call.op = "comm_open" /\ call.alive
    /\ call.gen = 1
    /\ call.protocol = ReducedClientProtocol
    /\ remote.protocol = ReducedClientProtocol
    /\ Table(Cur) = {}
    /\ Len(outbox) = 1
    /\ outbox[1].method = "set_protocol"
    /\ \E i \in DOMAIN promises : promises[i].state = "pending"

MethodNamed(n) == cls.methods[CHOOSE i \in DOMAIN cls.methods : cls.methods[i].name = n]

\* C16: every call of get_protocol returns the descriptors of the cache,
\* which a call never changes once it is built; each name of msg_types that
\* is a function of the class has exactly one descriptor and no other name
\* has one; the required keys of a descriptor are the arguments after self
\* that have no default, its optional keys those that have one, in the order
\* of declaration.
C16_ProtocolStable ==
    call.op = "get_protocol" =>
        LET ds    == call.descriptors
            names == { cls.methods[i].name : i \in DOMAIN cls.methods }
        IN  /\ clsProtocol.built
            /\ call.before.built => clsProtocol = call.before
            /\ { ds[i] : i \in DOMAIN ds } =
                  { clsProtocol.protocol[n] : n \in DOMAIN clsProtocol.protocol }
            /\ \A n \in cls.msg_types \cap names :
                   Cardinality({ i \in DOMAIN ds : ds[i].procedure = n }) = 1
            /\ \A i \in DOMAIN ds :
                   /\ ds[i].procedure \in cls.msg_types \cap names
                   /\ LET m == MethodNamed(ds[i].procedure)
                          R == Len(m.args) - 1 - m.defaults
                      IN  /\ Len(ds[i].required) = R
                          /\ Len(ds[i].optional) = m.defaults
                          /\ \A j \in 1..R : ds[i].required[j].key = m.args[1 + j]
                          /\ \A j \in 1..m.defaults :
                                 ds[i].optional[j].key = m.args[1 + R + j]

\* C16 witness: get_protocol is called on the second controller instance,
\* the cache having been built before the restart; f(self, p, q = default)
\* is listed, g is a function that msg_types does not name, and msg_types
\* names k, which is no function.
C16_Witness ==
    /\ call.op = "get_protocol"
    /\ call.gen = 2
    /\ call.before.built
    /\ cls.msg_types = {"f", "k"}
    /\ cls.methods = <<Method("f", 2, 1), Method("g", 1, 0)>>
    /\ Len(call.descriptors) = 1
    /\ Len(call.descriptors[1].required) = 1

\* C17 (as stated): remove_layer of the name n and remove_layer of an object
\* named n send the same request for n; once a response without error for
\* that request has been handled, whatever its result, the collection holds
\* no layer named n and the other layers are as before.
C17_RemoveByRequestedName ==
    /\ (call.op \in {"remove_layer", "remove_layer_of"} /\ escaped = NoExc) =>
          /\ Len(outbox) = 1
          /\ outbox[1].method = "remove_layer"
          /\ outbox[1].params = <<Param("layer_name", StrV("osm_base"))>>
    /\ (/\ call.op = "comm_msg" /\ call.alive /\ is_response(call.msg)
        /\ call.msg.error = NoError
        /\ call.msg.id \in Table(Cur)
        /\ call.before.promises[call.msg.id].state = "pending"
        /\ promises[call.msg.id].cont.kind = "remove_layer"
        /\ promises[call.msg.id].cont.self = geonotebook.gen) =>
          LET n == promises[call.msg.id].cont.requested.str
          IN  /\ ~HasLayer(geonotebook.layers, n)
              /\ geonotebook.layers =
                    SelectSeq(call.before.geonotebook.layers, LAMBDA l : l.name # n)

\* the continuation of the promise a response settles cannot do its local
\* mutation: a set_center result that is no triple, an add_annotation result
\* that is no dict or that finds no annotation layer
ContinuationFails ==
    LET c == promises[call.msg.id].cont
    IN  /\ call.msg.error = NoError
        /\ \/ c.kind = "set_center" /\ call.msg.result.tag # "list"
           \/ c.kind = "add_annotation" /\ call.msg.result.tag # "dict"
           \/ /\ c.kind = "add_annotation"
              /\ ~HasAnnotationLayer(call.before.geonotebook.layers)

\* C18: when the continuation run by a response fails, the failure is logged
\* by callback_error; it reaches neither the except clauses of
\* handle_comm_msg nor its caller, no envelope is sent, and the controller
\* is left as it was.
C18_ContinuationFailureLogged ==
    (/\ call.op = "comm_msg" /\ call.alive /\ is_response(call.msg)
     /\ call.msg.id \in Table(Cur)
     /\ call.before.promises[call.msg.id].state = "pending"
     /\ ContinuationFails) =>
        /\ escaped = NoExc
        /\ call.caught = NoExc
        /\ outbox = << >>
        /\ log = <<"callback_error">>
        /\ geonotebook = call.before.geonotebook
        /\ promises[call.msg.id].state = "fulfilled"

\* C18 witness: the response to set_center carried a null result; the
\* failure of _set_center was logged and the viewport is still unset.
C18_Witness ==
    /\ call.op = "comm_msg" /\ call.alive /\ is_response(call.msg)
    /\ call.msg.id \in Table(Cur)
    /\ call.before.promises[call.msg.id].state = "pending"
    /\ promises[call.msg.id].cont.kind = "set_center"
    /\ call.msg.error = NoError /\ call.msg.result = NullV
    /\ log = <<"callback_error">>
    /\ geonotebook.view = NullV

\* C19 (as stated): of any two layers of the collection that are not
\* annotation layers, the one appended earlier has the strictly smaller
\* zIndex.
C19_InsertionOrderIsZOrder ==
    \A i, j \in DOMAIN geonotebook.layers :
        (/\ i < j
         /\ geonotebook.layers[i].kind # "annotation"
         /\ geonotebook.layers[j].kind # "annotation") =>
            geonotebook.layers[i].zIndex < geonotebook.layers[j].zIndex

\* C20 (as stated): a request for add_annotation_from_client with its three
\* required params, handled after the comm open while no outbound call has
\* been acknowledged, adds one annotation to the annotation layer and is
\* answered with the one envelope of result true and null error.
C20_AnnotationFromClientReachable ==
    (/\ RequestHandled
     /\ call.msg.method = "add_annotation_from_client"
     /\ RequiredKeysOf(call.msg.method) \subseteq ParamKeys(call.msg.params)
     /\ \A i \in DOMAIN call.before.promises :
           call.before.promises[i].state = "pending") =>
        /\ outbox = <<json_rpc_result(TrueV, NoError, call.msg.id)>>
        /\ HasAnnotationLayer(geonotebook.layers)
        /\ AnnotationCount(geonotebook.layers) =
              AnnotationCount(call.before.geonotebook.layers) + 1

\* C21 (as stated): do_shutdown(restart = True) installs a new controller
\* with no viewport and no layer and sets the flag of the first open again,
\* so that the first comm open handled by a controller installed by a
\* restart sends the two bootstrap add_layer requests for it;
\* do_shutdown(restart = False) leaves no controller, and a message handled
\* while there is none sends nothing and raises nothing to its caller.
C21_RestartRebootstraps ==
    /\ (call.op = "shutdown" /\ call.restart) =>
          /\ geonotebook.alive
          /\ geonotebook.gen = call.before.geonotebook.gen + 1
          /\ geonotebook.view = NullV
          /\ geonotebook.layers = << >>
          /\ initializing
    /\ (call.op = "comm_open" /\ call.alive /\ ~call.bound
          /\ geonotebook.gen > 1) =>
          \A name \in {"osm_base", "annotation"} :
              \E i \in Table(Cur) :
                  /\ promises[i].cont.kind = "add_layer"
                  /\ promises[i].cont.layer.name = name
                  /\ promises[i].cont.self = geonotebook.gen
    /\ (call.op = "shutdown" /\ ~call.restart) => ~geonotebook.alive
    /\ (call.op = "comm_msg" /\ ~call.alive) =>
          /\ outbox = << >>
          /\ escaped = NoExc
          /\ geonotebook = call.before.geonotebook

\* the promises of set_center calls of the installed controller that a
\* response fulfilled with a triple
CenterAcks ==
    { i \in DOMAIN promises :
         /\ promises[i].cont.kind = "set_center"
         /\ promises[i].cont.self = geonotebook.gen
         /\ promises[i].state = "fulfilled"
         /\ promises[i].value.tag = "list" }

\* C22 (as stated): the viewport is unset until a response fulfills a
\* set_center call; the step handling such a response sets it to the triple
\* of the result; and the result of get_map_state has a center, equal to
\* the viewport, exactly when the viewport is set, a coordinate 0 included.
C22_CenterWhenSet ==
    /\ CenterAcks = {} => geonotebook.view = NullV
    /\ (/\ call.op = "comm_msg" /\ call.alive /\ is_response(call.msg)
        /\ call.msg.id \in CenterAcks
        /\ call.before.promises[call.msg.id].state = "pending") =>
          geonotebook.view = call.msg.result
    /\ (RequestHandled /\ call.msg.method = "get_map_state") =>
          /\ Len(outbox) = 1
          /\ Reply.error = NoError
          /\ Reply.result.tag = "map_state"
          /\ Reply.result.list =
                IF geonotebook.view = NullV THEN << >> ELSE geonotebook.view.list

\* C23 (as stated): the request of an accepted invoke has one param for each
\* positional and each keyword argument of the call, so that a positional
\* argument beyond the required keys, or a keyword that is no declared
\* optional key, is sent or refused and never left out.
C23_NoArgumentDropped ==
    (call.op = "invoke" /\ call.accepted) =>
        /\ Len(outbox) = 1
        /\ Len(outbox[1].params) = NArgs
        /\ \A i \in DOMAIN call.args :
               \E j \in DOMAIN outbox[1].params :
                   outbox[1].params[j].value = call.args[i]
        /\ \A k \in DOMAIN call.kwargs :
               \E j \in DOMAIN outbox[1].params : outbox[1].params[j].key = k

\* C24: whenever a request reaches the request branch of _recv_msg, the
\* protocol cache of the class was built before and holds the exposed
\* procedures, in every order of start, comm opens, messages, user calls,
\* shutdown and restart; the request does not fail on an unbuilt cache.
C24_CacheBuiltBeforeDispatch ==
    RequestHandled =>
        /\ call.before.clsProtocol.built
        /\ DOMAIN call.before.clsProtocol.protocol = msg_types
        /\ clsProtocol = call.before.clsProtocol
        /\ call.caught.kind # "AttributeError"
        /\ outbox # << >>

\* C24 witness: get_map_state is requested of the controller a restart
\* installed, on the comm opened before the restart and before any reopen;
\* the cache built at that open serves the request.
C24_Witness ==
    /\ RequestHandled
    /\ call.msg.method = "get_map_state"
    /\ geonotebook.gen = 2
    /\ ~remote.bound
    /\ Reply.error = NoError

\* the promises registered in a Remote that a later comm open replaced
Orphans == { i \in DOMAIN promises : promises[i].remote < remote.gen }

\* C25: a comm open handled by a kernel that holds a controller binds a new
\* Remote whose table holds none of the promises made before; a promise
\* that was pending when its Remote was replaced stays as it is in every
\* later step; the step that handles a response carrying its id settles
\* nothing, runs no continuation, sends nothing and leaves the controller
\* and every other promise unchanged; a response for a pending promise of
\* the bound Remote still settles it.
C25_OrphanedByReopen ==
    [][/\ (call'.op = "comm_open" /\ call'.alive) =>
             /\ remote'.gen = remote.gen + 1
             /\ \A i \in DOMAIN promises : i \in Orphans'
             /\ \A i \in DOMAIN promises' \ DOMAIN promises :
                    promises'[i].state = "pending"
       /\ \A i \in Orphans :
             /\ i \in Orphans'
             /\ promises[i].state = "pending" => promises'[i] = promises[i]
       /\ (/\ call'.op = "comm_msg" /\ call'.alive /\ is_response(call'.msg)
           /\ call'.msg.id \in Orphans) =>
             /\ promises' = promises
             /\ geonotebook' = geonotebook
             /\ outbox' = << >>
             /\ escaped' = NoExc
       /\ (/\ call'.op = "comm_msg" /\ call'.alive /\ is_response(call'.msg)
           /\ remote.bound
           /\ call'.msg.id \in DOMAIN promises \ Orphans
           /\ promises[call'.msg.id].state = "pending") =>
             promises'[call'.msg.id].state # "pending"]_vars

\* C25 witness: the fulfilled response to the bootstrap add_layer of the
\* first Remote has been handled after a reopen; its promise is pending and
\* no layer was appended, while the set_center call made after the reopen
\* has been fulfilled and has set the viewport.
C25_Witness ==
    /\ call.op = "comm_msg" /\ call.alive /\ is_response(call.msg)
    /\ call.msg.error = NoError
    /\ call.msg.id \in Orphans
    /\ promises[call.msg.id].state = "pending"
    /\ promises[call.msg.id].cont.kind = "add_layer"
    /\ promises[call.msg.id].cont.self = geonotebook.gen
    /\ geonotebook.layers = << >>
    /\ geonotebook.view # NullV
    /\ \E i \in Table(Cur) : promises[i].state = "fulfilled"

====
